---- MODULE Spec2Model ----
(***************************************************************************)
(* Model of the parametric geometry classes of femmt/Model.py: Conductor,  *)
(* AirGaps, Insulation and WindingWindow.                                  *)
(*                                                                         *)
(* Numbers.  The code computes in Python floats.  The model computes in    *)
(* exact rationals <<n, d>> (d > 0, lowest terms), so equal rationals are  *)
(* equal tuples; the rounding error of a double (about 1e-16 relative) is  *)
(* the "tolerance" that this abstraction leaves out.  Rounding that the    *)
(* code asks for (np.around) is modelled as rounding.  Python's None is    *)
(* the empty tuple.                                                        *)
(***************************************************************************)
EXTENDS Integers, Sequences, FiniteSets, TLC

None == << >>

\* ------------------------------------------------------------------------
\* Exact rational arithmetic
\* ------------------------------------------------------------------------
RECURSIVE GCD(_, _)
GCD(a, b) == IF b = 0 THEN a ELSE GCD(b, a % b)

IAbs(x) == IF x < 0 THEN -x ELSE x

Q(n, d) ==
    LET s == IF d < 0 THEN -1 ELSE 1
        g == GCD(IAbs(n), IAbs(d))
    IN  << (s * n) \div g, (s * d) \div g >>

QInt(k) == << k, 1 >>
QZero == << 0, 1 >>

\* over the least common denominator, to keep the intermediate products small
QAdd(a, b) ==
    LET g == GCD(a[2], b[2])
    IN  Q(a[1] * (b[2] \div g) + b[1] * (a[2] \div g), (a[2] \div g) * b[2])
QNeg(a) == << -a[1], a[2] >>
QSub(a, b) == QAdd(a, QNeg(b))
\* cross-reduce before multiplying to keep the intermediate products small
QMul(a, b) ==
    LET g1 == GCD(IAbs(a[1]), b[2])
        g2 == GCD(IAbs(b[1]), a[2])
    IN  Q((a[1] \div g1) * (b[1] \div g2), (a[2] \div g2) * (b[2] \div g1))
QInv(a) == Q(a[2], a[1])
QDiv(a, b) == QMul(a, QInv(b))
QSq(a) == QMul(a, a)
QHalf(a) == QDiv(a, QInt(2))
QLt(a, b) == a[1] * b[2] < b[1] * a[2]
QLe(a, b) == a[1] * b[2] <= b[1] * a[2]
QAbs(a) == << IAbs(a[1]), a[2] >>
QMin(a, b) == IF QLe(a, b) THEN a ELSE b
QMax(a, b) == IF QLe(a, b) THEN b ELSE a
\* a < b for non-negative values as large as 1e9: integer parts first
QLtWide(a, b) ==
    LET ia == a[1] \div a[2]
        ib == b[1] \div b[2]
    IN  IF a = b THEN FALSE
        ELSE IF ia # ib THEN ia < ib
        ELSE IF a[1] = b[1] /\ a[1] > 0 THEN b[2] < a[2]
        ELSE QLt(<< a[1] - ia * a[2], a[2] >>, << b[1] - ib * b[2], b[2] >>)

\* integer square root (floor) by bisection
RECURSIVE ISqrtBetween(_, _, _)
ISqrtBetween(n, lo, hi) ==
    IF hi - lo <= 1 THEN lo
    ELSE LET mid == (lo + hi) \div 2
         IN  IF mid <= n \div mid THEN ISqrtBetween(n, mid, hi)
                                  ELSE ISqrtBetween(n, lo, mid)
ISqrt(n) == IF n = 0 THEN 0 ELSE ISqrtBetween(n, 1, n + 1)
IsSquare(n) == ISqrt(n) * ISqrt(n) = n

\* np.sqrt on a non-negative rational whose root is rational
HasQSqrt(a) == a[1] >= 0 /\ IsSquare(a[1]) /\ IsSquare(a[2])
QSqrt(a) == << ISqrt(a[1]), ISqrt(a[2]) >>

\* np.around(x, decimals=2) for x >= 0: round half to even on x * 100
Around2(a) ==
    LET num == 100 * a[1]
        fl  == num \div a[2]
        rem == num - fl * a[2]
        r   == IF 2 * rem < a[2] THEN fl
               ELSE IF 2 * rem > a[2] THEN fl + 1
               ELSE IF fl % 2 = 0 THEN fl ELSE fl + 1
    IN  Q(r, 100)

VARIABLES
    conductor,        \* the Conductor instance (its attributes)
    cond_call,        \* the last set_* call on it: operation, arguments, outcome, attributes before
    cond_calls,       \* number of set_* calls made so far
    core,             \* the Core instance (geometry attributes)
    method,           \* AirGaps.method
    midpoints,        \* AirGaps.midpoints
    number,           \* AirGaps.number
    air_gap_settings, \* AirGaps.air_gap_settings
    gap_call,         \* the last add_air_gap call: arguments, outcome, state before
    insulation,       \* the Insulation instance
    ww,               \* the WindingWindow instance (None before construction)
    ww_call,          \* the last split_window / combine_vww / set_winding call: arguments,
                      \* outcome, returned regions, the list before, and the call counts
    mesh,             \* the MeshData instance
    mesh_call,        \* the last two update_data calls: frequency and resulting delta
    mu_call,          \* the last evaluation of the N95 imaginary-permeability functions
    core_call         \* the Core constructor call: arguments and outcome

condVars == << conductor, cond_call, cond_calls >>
gapVars == << method, midpoints, number, air_gap_settings, gap_call >>
winVars == << insulation, ww, ww_call >>
dataVars == << mesh, mesh_call, mu_call, core_call >>
vars == << conductor, cond_call, cond_calls, core, method, midpoints, number,
           air_gap_settings, gap_call, insulation, ww, ww_call, mesh, mesh_call, mu_call,
           core_call >>

\* ------------------------------------------------------------------------
\* Bounds
\* ------------------------------------------------------------------------
MaxConductorCalls == 2
MaxGapCalls == 2
MaxSplits == 1
MaxCombines == 2
MaxSetWindings == 1
MaxUpdates == 2

\* ------------------------------------------------------------------------
\* Conductor
\* ------------------------------------------------------------------------
\* Cross-sections are q * pi^k: [coef |-> q, pi_pow |-> k]; unset is coef None
ACell(q, k) == [coef |-> q, pi_pow |-> k]

\* None in an attribute that otherwise holds an enumeration member
NoEnum == "None"

\* Conductor.__init__ and the class-level defaults
ConductorInit ==
    [ conductor_is_set      |-> FALSE,
      conductor_type        |-> NoEnum,
      conductor_arrangement |-> NoEnum,
      conductor_radius      |-> None,
      thickness             |-> None,
      ff                    |-> None,
      strand_radius         |-> None,
      n_strands             |-> QZero,
      n_layers              |-> None,
      a_cell                |-> ACell(None, 0) ]

NoCall == [ op |-> "none", args |-> << >>, result |-> "none", pre |-> ConductorInit ]

\* ff.NbrLayers: smallest number of hexagonal layers L with
\* 3 L (L + 1) + 1 >= n_strands (a monotonic step function of the count)
RECURSIVE NbrLayersFrom(_, _)
NbrLayersFrom(n_strands, L) ==
    IF QLe(n_strands, QInt(3 * L * (L + 1) + 1)) THEN L
    ELSE NbrLayersFrom(n_strands, L + 1)
NbrLayers(n_strands) == NbrLayersFrom(n_strands, 0)
\* a formula over a strand count has no value for None: Python raises TypeError
NbrLayersRaises(n_strands) == n_strands = None

\* the strand count solved without the fill factor
SolveNStrandsNoFill(conductor_radius, strand_radius, fill_factor) ==
    QDiv(QSq(conductor_radius), QSq(strand_radius))

\* the four litz formulas
SolveNStrands(conductor_radius, strand_radius, fill_factor) ==
    QMul(QDiv(QSq(conductor_radius), QSq(strand_radius)), fill_factor)
SolveConductorRadius(number_strands, strand_radius, fill_factor) ==
    QSqrt(QDiv(QMul(number_strands, QSq(strand_radius)), fill_factor))
SolveFillFactor(number_strands, strand_radius, conductor_radius) ==
    Around2(QDiv(QMul(number_strands, QSq(strand_radius)), QSq(conductor_radius)))
SolveStrandRadius(conductor_radius, fill_factor, number_strands) ==
    QSqrt(QDiv(QMul(QSq(conductor_radius), fill_factor), number_strands))

\* the if/elif chain with its last elif turned into the else
LitzBranchNoElse(conductor_radius, number_strands, strand_radius, fill_factor) ==
    IF number_strands = None THEN "number_strands"
    ELSE IF conductor_radius = None THEN "conductor_radius"
    ELSE IF fill_factor = None THEN "fill_factor"
    ELSE "strand_radius"

\* which branch of the if/elif chain of set_litz_round_conductor is taken
LitzBranch(conductor_radius, number_strands, strand_radius, fill_factor) ==
    IF number_strands = None THEN "number_strands"
    ELSE IF conductor_radius = None THEN "conductor_radius"
    ELSE IF fill_factor = None THEN "fill_factor"
    ELSE IF strand_radius = None THEN "strand_radius"
    ELSE "else"

\* arithmetic on None in the taken branch raises TypeError
LitzBranchTypeError(conductor_radius, number_strands, strand_radius, fill_factor) ==
    LET b == LitzBranch(conductor_radius, number_strands, strand_radius, fill_factor)
    IN  \/ b = "number_strands"
           /\ (conductor_radius = None \/ strand_radius = None \/ fill_factor = None)
        \/ b = "conductor_radius" /\ (strand_radius = None \/ fill_factor = None)
        \/ b = "fill_factor" /\ strand_radius = None

\* the inputs the model can represent: the square root taken is rational
LitzRepresentable(conductor_radius, number_strands, strand_radius, fill_factor) ==
    LET b == LitzBranch(conductor_radius, number_strands, strand_radius, fill_factor)
    IN  IF LitzBranchTypeError(conductor_radius, number_strands, strand_radius, fill_factor)
        THEN TRUE
        ELSE IF b = "conductor_radius"
        THEN HasQSqrt(QDiv(QMul(number_strands, QSq(strand_radius)), fill_factor))
        ELSE IF b = "strand_radius"
        THEN HasQSqrt(QDiv(QMul(QSq(conductor_radius), fill_factor), number_strands))
        ELSE TRUE

\* set_rectangular_conductor(thickness)
set_rectangular_conductor(thickness) ==
    /\ cond_calls < MaxConductorCalls
    /\ cond_calls' = cond_calls + 1
    /\ IF conductor.conductor_is_set
       THEN /\ conductor' = conductor
            /\ cond_call' = [ op |-> "rectangular", args |-> << thickness >>,
                              result |-> "Exception", pre |-> conductor ]
       ELSE /\ conductor' = [ conductor EXCEPT
                                !.conductor_is_set = TRUE,
                                !.conductor_type = "RectangularSolid",
                                !.thickness = thickness,
                                !.a_cell = ACell(QInt(1), 0),
                                !.conductor_radius = QInt(1) ]
            /\ cond_call' = [ op |-> "rectangular", args |-> << thickness >>,
                              result |-> "ok", pre |-> conductor ]
    /\ UNCHANGED << core, dataVars, gapVars, winVars >>

\* set_solid_round_conductor without the conductor_is_set check
SetSolidRoundUnguarded(c, conductor_radius, conductor_arrangement) ==
    [ cond |-> [ c EXCEPT
                   !.conductor_is_set = TRUE,
                   !.conductor_type = "RoundSolid",
                   !.conductor_arrangement = conductor_arrangement,
                   !.conductor_radius = conductor_radius,
                   !.a_cell = ACell(QSq(conductor_radius), 1) ],
      result |-> "ok" ]

\* set_solid_round_conductor(conductor_radius, conductor_arrangement)
SetSolidRound(c, conductor_radius, conductor_arrangement) ==
    IF c.conductor_is_set
    THEN [ cond |-> c, result |-> "Exception" ]
    ELSE [ cond |-> [ c EXCEPT
                        !.conductor_is_set = TRUE,
                        !.conductor_type = "RoundSolid",
                        !.conductor_arrangement = conductor_arrangement,
                        !.conductor_radius = conductor_radius,
                        !.a_cell = ACell(QSq(conductor_radius), 1) ],
           result |-> "ok" ]

set_solid_round_conductor(conductor_radius, conductor_arrangement) ==
    LET out == SetSolidRound(conductor, conductor_radius, conductor_arrangement)
    IN  /\ cond_calls < MaxConductorCalls
        /\ cond_calls' = cond_calls + 1
        /\ conductor' = out.cond
        /\ cond_call' = [ op |-> "solid", args |-> << conductor_radius, conductor_arrangement >>,
                          result |-> out.result, pre |-> conductor ]
        /\ UNCHANGED << core, dataVars, gapVars, winVars >>

\* set_litz_round_conductor: the attributes after the call and how it ended
SetLitzRound(c, conductor_radius, number_strands, strand_radius, fill_factor, conductor_arrangement) ==
    LET b == LitzBranch(conductor_radius, number_strands, strand_radius, fill_factor)
        \* lines 80-86: the arguments are stored as given
        c1 == [ c EXCEPT
                  !.conductor_is_set = TRUE,
                  !.conductor_type = "RoundLitz",
                  !.conductor_arrangement = conductor_arrangement,
                  !.conductor_radius = conductor_radius,
                  !.n_strands = number_strands,
                  !.strand_radius = strand_radius,
                  !.ff = fill_factor ]
        \* lines 88-96: the missing one is solved
        c2 == CASE b = "number_strands" ->
                     [ c1 EXCEPT !.n_strands =
                         SolveNStrands(conductor_radius, strand_radius, fill_factor) ]
                [] b = "conductor_radius" ->
                     [ c1 EXCEPT !.conductor_radius =
                         SolveConductorRadius(number_strands, strand_radius, fill_factor) ]
                [] b = "fill_factor" ->
                     [ c1 EXCEPT !.ff =
                         SolveFillFactor(number_strands, strand_radius, conductor_radius) ]
                [] b = "strand_radius" ->
                     [ c1 EXCEPT !.strand_radius =
                         SolveStrandRadius(conductor_radius, fill_factor, number_strands) ]
        \* lines 100-101
        c3 == [ c2 EXCEPT
                  !.n_layers = QInt(NbrLayers(number_strands)),
                  !.a_cell = ACell(QDiv(QMul(c2.n_strands, QSq(c2.strand_radius)), c2.ff), 1) ]
    IN  IF c.conductor_is_set THEN [ cond |-> c, result |-> "Exception" ]
        ELSE IF LitzBranchTypeError(conductor_radius, number_strands, strand_radius,
                                    fill_factor)
             THEN [ cond |-> c1, result |-> "TypeError" ]
        ELSE IF b = "else" THEN [ cond |-> c1, result |-> "Exception" ]
        ELSE IF NbrLayersRaises(number_strands) THEN [ cond |-> c2, result |-> "TypeError" ]
        ELSE [ cond |-> c3, result |-> "ok" ]

set_litz_round_conductor(conductor_radius, number_strands, strand_radius, fill_factor, conductor_arrangement) ==
    LET out == SetLitzRound(conductor, conductor_radius, number_strands, strand_radius,
                            fill_factor, conductor_arrangement)
    IN  /\ cond_calls < MaxConductorCalls
        /\ LitzRepresentable(conductor_radius, number_strands, strand_radius, fill_factor)
        /\ cond_calls' = cond_calls + 1
        /\ conductor' = out.cond
        /\ cond_call' = [ op |-> "litz",
                          args |-> << conductor_radius, number_strands, strand_radius,
                                      fill_factor, conductor_arrangement >>,
                          result |-> out.result, pre |-> conductor ]
        /\ UNCHANGED << core, dataVars, gapVars, winVars >>

\* ------------------------------------------------------------------------
\* Inputs of the conductor operations
\* ------------------------------------------------------------------------
Arrangements == { "Square" }
Thicknesses == { Q(1, 1000) }
Radii == { Q(1, 1000), Q(1, 500) }
StrandCounts == { QInt(240), QInt(60), QInt(100) }
StrandRadii == { Q(1, 20000), Q(1, 10000) }
FillFactors == { Q(3, 5), Q(1, 4), Q(16, 25), Q(5, 8) }
Opt(S) == S \cup { None }

ConductorStart ==
    /\ conductor = ConductorInit
    /\ cond_call = NoCall
    /\ cond_calls = 0

ConductorNext ==
    \/ \E t \in Thicknesses : set_rectangular_conductor(t)
    \/ \E r \in Radii, a \in Arrangements : set_solid_round_conductor(r, a)
    \/ \E r \in Opt(Radii), n \in Opt(StrandCounts), rs \in Opt(StrandRadii),
          f \in Opt(FillFactors), a \in Arrangements :
          set_litz_round_conductor(r, n, rs, f, a)

\* ------------------------------------------------------------------------
\* MeshData and AnalyticalCoreData
\* ------------------------------------------------------------------------
\* A mesh quantity is a rational, or the square root of a rational times a power
\* of pi: [root |-> FALSE, q |-> x, pi_pow |-> 0] is x and
\* [root |-> TRUE, q |-> x, pi_pow |-> k] is sqrt(x) * pi^k
Rat(x) == [ root |-> FALSE, q |-> x, pi_pow |-> 0 ]
Root(x, k) == [ root |-> TRUE, q |-> x, pi_pow |-> k ]
\* an attribute that has not been assigned yet
Unset == Rat(None)

\* rational bounds of pi^2 (9.8696...)
PiSqLo == Q(49, 5)
PiSqHi == Q(99, 10)

\* a * s for a rational s >= 0
Scaled(a, s) == IF a.root THEN Root(QMul(a.q, QSq(s)), a.pi_pow) ELSE Rat(QMul(a.q, s))

\* a < b for a, b >= 0 where sqrt(x) / pi is the only root form:
\* sqrt(x) / pi < y iff x / y^2 < pi^2
Below(a, b) ==
    IF a.root = b.root THEN QLtWide(a.q, b.q)
    ELSE IF a.root THEN QLtWide(QDiv(a.q, QSq(b.q)), PiSqLo)
    ELSE QLtWide(PiSqHi, QDiv(b.q, QSq(a.q)))

\* the comparison of a with b is decided by the bounds of pi^2
Decided(a, b) ==
    IF a.root = b.root THEN TRUE
    ELSE IF a.root
    THEN QLtWide(QDiv(a.q, QSq(b.q)), PiSqLo) \/ QLtWide(PiSqHi, QDiv(a.q, QSq(b.q)))
    ELSE QLtWide(QDiv(b.q, QSq(a.q)), PiSqLo) \/ QLtWide(PiSqHi, QDiv(b.q, QSq(a.q)))

\* min([a, b])
Smaller(a, b) == IF Below(b, a) THEN b ELSE a

\* the vacuum permeability 4 pi 1e-7 passed to MeshData: coef * pi
Mu0Coef == Q(1, 2500000)

\* a skin depth that ignores the frequency: sqrt(2 / (2 pi sigma mu0)) at every
\* frequency other than 0
SkinDepthFrequencyFree(frequency, cond_sigma, mu0_coef) ==
    IF frequency = QZero THEN Rat(QInt(1000000000))
    ELSE Root(QDiv(QInt(2), QMul(QMul(QInt(2), mu0_coef), cond_sigma)), -1)

\* lines 107-110: delta = 1e9 at frequency 0, else sqrt(2 / (2 f pi sigma mu0));
\* with mu0 = mu0_coef * pi this is sqrt(2 / (2 f sigma mu0_coef)) / pi
SkinDepth(frequency, cond_sigma, mu0_coef) ==
    IF frequency = QZero THEN Rat(QInt(1000000000))
    ELSE Root(QDiv(QInt(2), QMul(QMul(QMul(QInt(2), frequency), mu0_coef), cond_sigma)), -1)

\* the attributes of a Conductor that update_data reads
MeshWinding(cond_sigma, c) ==
    [ cond_sigma |-> cond_sigma, conductor_type |-> c.conductor_type,
      conductor_radius |-> c.conductor_radius ]

\* MeshData.__init__
MeshDataInit(global_accuracy, padding, mu0_coef, core_w, window_w, windings) ==
    [ global_accuracy    |-> global_accuracy,
      padding            |-> padding,
      mu0                |-> mu0_coef,
      core_w             |-> core_w,
      window_w           |-> window_w,
      windings           |-> windings,
      c_conductor        |-> [ i \in 1..Len(windings) |-> Unset ],
      c_center_conductor |-> [ i \in 1..Len(windings) |-> Unset ],
      c_core             |-> None,
      c_window           |-> None,
      skin_mesh_factor   |-> None,
      delta              |-> Unset ]

NoMesh == MeshDataInit(QInt(1), QInt(1), Mu0Coef, QZero, QZero, << >>)
NoMeshCall ==
    [ calls |-> 0, frequency |-> None, delta |-> Unset, prev_frequency |-> None,
      prev_delta |-> Unset ]
NoMuCall == [ op |-> "none", f |-> None, b |-> None, result |-> "none", value |-> None ]

\* a cell size that ignores the skin depth: the coarse size for both round types
CellSizeNoSkin(m, winding, delta, skin_mesh_factor) ==
    IF winding.conductor_type \in { "RoundSolid", "RoundLitz" }
    THEN Rat(QMul(QDiv(winding.conductor_radius, QInt(4)), m.global_accuracy))
    ELSE Rat(Q(1, 10000))

\* lines 112-119: the cell size of one conductor
CellSize(m, winding, delta, skin_mesh_factor) ==
    LET coarse == Rat(QMul(QDiv(winding.conductor_radius, QInt(4)), m.global_accuracy))
    IN  IF winding.conductor_type = "RoundSolid"
        THEN Smaller(Scaled(delta, skin_mesh_factor), coarse)
        ELSE IF winding.conductor_type = "RoundLitz" THEN coarse
        ELSE Rat(Q(1, 10000))

\* lines 112-116: c_center_conductor is left as it was for the other conductor types
CenterCellSize(m, i) ==
    IF m.windings[i].conductor_type \in { "RoundSolid", "RoundLitz" }
    THEN Rat(QMul(QDiv(m.windings[i].conductor_radius, QInt(4)), m.global_accuracy))
    ELSE m.c_center_conductor[i]

\* update_data(frequency, skin_mesh_factor); frequency may be None
UpdateData(m, frequency, skin_mesh_factor) ==
    LET m1 == [ m EXCEPT !.c_core = QMul(QDiv(m.core_w, QInt(10)), m.global_accuracy),
                         !.c_window = QMul(QDiv(m.window_w, QInt(30)), m.global_accuracy),
                         !.skin_mesh_factor = skin_mesh_factor ]
        delta == SkinDepth(frequency, m.windings[1].cond_sigma, m.mu0)
    IN  IF frequency = None THEN m1
        ELSE [ m1 EXCEPT
                 !.delta = delta,
                 !.c_conductor = [ i \in 1..Len(m.windings) |->
                                     CellSize(m, m.windings[i], delta, skin_mesh_factor) ],
                 !.c_center_conductor = [ i \in 1..Len(m.windings) |->
                                            CenterCellSize(m, i) ] ]

\* the inputs the model can decide: min() of a root and a rational
UpdateRepresentable(m, frequency, skin_mesh_factor) ==
    IF frequency = None THEN TRUE
    ELSE \A i \in 1..Len(m.windings) :
           IF m.windings[i].conductor_type = "RoundSolid"
           THEN Decided(Scaled(SkinDepth(frequency, m.windings[1].cond_sigma, m.mu0),
                               skin_mesh_factor),
                        Rat(QMul(QDiv(m.windings[i].conductor_radius, QInt(4)),
                                 m.global_accuracy)))
           ELSE TRUE

\* Rows of the N95 tables, << b, mu_imag >>, in the order of the source: the first
\* row and rows 89, 91, 92, 94 of N95_b_200000 / N95_mu_imag_200000 and the first
\* row and rows 123, 124, 126, 128 of N95_b_300000 / N95_mu_imag_300000, with b in
\* units of 1e-5 T and mu_imag rounded to a whole number
N95_200000 ==
    << << QInt(0), QInt(63) >>, << QInt(40248), QInt(1204) >>, << QInt(41793), QInt(1245) >>,
       << QInt(42641), QInt(1267) >>, << QInt(43746), QInt(1296) >> >>
N95_300000 ==
    << << QInt(0), QInt(176) >>, << QInt(42711), QInt(2355) >>, << QInt(42957), QInt(2364) >>,
       << QInt(43308), QInt(2377) >>, << QInt(43858), QInt(2396) >> >>

\* interp1d sorts the rows by x (assume_sorted = False)
RECURSIVE InsertRow(_, _)
InsertRow(row, rows) ==
    IF rows = << >> THEN << row >>
    ELSE IF QLe(row[1], Head(rows)[1]) THEN << row >> \o rows
    ELSE << Head(rows) >> \o InsertRow(row, Tail(rows))
RECURSIVE SortRows(_)
SortRows(rows) == IF rows = << >> THEN << >> ELSE InsertRow(Head(rows), SortRows(Tail(rows)))

\* interp1d raises ValueError for x_new outside the sampled range (bounds_error)
OutOfRange(rows, x_new) ==
    LET sorted == SortRows(rows)
    IN  QLt(x_new, sorted[1][1]) \/ QLt(sorted[Len(sorted)][1], x_new)

\* np.searchsorted(x, x_new): the number of rows with x < x_new
SearchSorted(sorted, x_new) == Cardinality({ i \in 1..Len(sorted) : QLt(sorted[i][1], x_new) })

\* interp1d(x, y)(x_new), linear: slope * (x_new - x_lo) + y_lo on the interval found
\* by searchsorted, clipped to the first and last interval
Interp1d(rows, x_new) ==
    LET sorted == SortRows(rows)
        found == SearchSorted(sorted, x_new)
        hi == (IF found < 1 THEN 1 ELSE IF found > Len(sorted) - 1 THEN Len(sorted) - 1
               ELSE found) + 1
        lo == hi - 1
        slope == QDiv(QSub(sorted[hi][2], sorted[lo][2]), QSub(sorted[hi][1], sorted[lo][1]))
    IN  QAdd(QMul(slope, QSub(x_new, sorted[lo][1])), sorted[lo][2])

\* lines 289-290; (d / 100000) * (f - 200000) is taken as d * ((f - 200000) / 100000)
\* to keep the intermediate denominators small
MuImag(f, b) ==
    QAdd(Interp1d(N95_200000, b),
         QMul(QSub(Interp1d(N95_300000, b), Interp1d(N95_200000, b)),
              QDiv(QSub(f, QInt(200000)), QInt(100000))))

\* f_N95_mu_imag_200000(b) and f_N95_mu_imag_300000(b)
f_N95_mu_imag_single(op, rows, b) ==
    /\ mu_call.op = "none"
    /\ mu_call' = [ op |-> op, f |-> None, b |-> b,
                    result |-> IF OutOfRange(rows, b) THEN "ValueError" ELSE "ok",
                    value |-> IF OutOfRange(rows, b) THEN None ELSE Interp1d(rows, b) ]
    /\ UNCHANGED << condVars, core, core_call, gapVars, winVars, mesh, mesh_call >>

\* f_N95_mu_imag(f, b)
f_N95_mu_imag(f, b) ==
    LET raises == OutOfRange(N95_200000, b) \/ OutOfRange(N95_300000, b)
    IN  /\ mu_call.op = "none"
        /\ mu_call' = [ op |-> "f_N95_mu_imag", f |-> f, b |-> b,
                        result |-> IF raises THEN "ValueError" ELSE "ok",
                        value |-> IF raises THEN None ELSE MuImag(f, b) ]
        /\ UNCHANGED << condVars, core, core_call, gapVars, winVars, mesh, mesh_call >>

update_data(frequency, skin_mesh_factor) ==
    /\ mesh_call.calls < MaxUpdates
    /\ UpdateRepresentable(mesh, frequency, skin_mesh_factor)
    /\ mesh' = UpdateData(mesh, frequency, skin_mesh_factor)
    /\ mesh_call' = [ calls |-> mesh_call.calls + 1,
                      frequency |-> frequency,
                      delta |-> mesh'.delta,
                      prev_frequency |-> mesh_call.frequency,
                      prev_delta |-> mesh_call.delta ]
    /\ UNCHANGED << condVars, core, core_call, gapVars, winVars, mu_call >>

\* ------------------------------------------------------------------------
\* Core (geometry)
\* ------------------------------------------------------------------------
\* Core.__init__: the dimensions and the derived inner radius
CoreInit(core_w, window_w, window_h) ==
    [ core_w   |-> core_w,
      window_w |-> window_w,
      window_h |-> window_h,
      r_inner  |-> QAdd(window_w, QHalf(core_w)) ]

\* ------------------------------------------------------------------------
\* Core (loss approach and material)
\* ------------------------------------------------------------------------
\* sigma is None, a number, 0 or the marker "sigma_from_<material>"
NoSigma == [ kind |-> "None", value |-> None, material |-> "" ]
SigmaNumber(x) == [ kind |-> "number", value |-> x, material |-> "" ]
SigmaFrom(material) == [ kind |-> "from_material", value |-> None, material |-> material ]
SigmaArg(sigma) == IF sigma = None THEN NoSigma ELSE SigmaNumber(sigma)

\* no Core instance (before the constructor, or after it raised)
NoCore ==
    [ constructed |-> FALSE, core_w |-> None, window_w |-> None, window_h |-> None,
      r_inner |-> None, r_outer_sq |-> [ rat |-> None, per_pi |-> None ],
      material |-> "", loss_approach |-> NoEnum, mu_rel |-> None, phi_mu_deg |-> None,
      non_linear |-> FALSE, correct_outer_leg |-> FALSE, sigma |-> NoSigma,
      permeability_type |-> NoEnum ]

NoCoreCall == [ result |-> "none", material |-> "", loss_approach |-> NoEnum, sigma |-> None ]

\* lines 210-214: sigma under the LossAngle approach
LossAngleSigma(material, sigma) ==
    IF material = "custom" THEN [ raises |-> FALSE, sigma |-> SigmaArg(sigma) ]
    ELSE [ raises |-> FALSE, sigma |-> SigmaFrom(material) ]

\* lines 203-221: the outcome of the loss-approach check
LossApproachCheck(material, loss_approach, phi_mu_deg, sigma) ==
    IF loss_approach = "Steinmetz"
    THEN IF material # "custom"
         THEN [ raises |-> FALSE, sigma |-> SigmaFrom(material),
                permeability_type |-> "FromData" ]
         ELSE [ raises |-> TRUE, sigma |-> SigmaNumber(QZero), permeability_type |-> NoEnum ]
    ELSE IF loss_approach = "LossAngle"
    THEN [ raises |-> LossAngleSigma(material, sigma).raises,
           sigma |-> LossAngleSigma(material, sigma).sigma,
           permeability_type |-> IF phi_mu_deg # None /\ phi_mu_deg # QZero
                                 THEN "FixedLossAngle" ELSE "RealValue" ]
    ELSE [ raises |-> TRUE, sigma |-> NoSigma, permeability_type |-> NoEnum ]

\* Core.__init__ (without keyword attributes); r_outer^2 is rat + per_pi / pi
CoreConstruct(core_w, window_w, window_h, material, loss_approach, mu_rel, phi_mu_deg, sigma, correct_outer_leg) ==
    LET geometry == CoreInit(core_w, window_w, window_h)
        check == LossApproachCheck(material, loss_approach, phi_mu_deg, sigma)
    IN  IF check.raises THEN NoCore
        ELSE [ constructed |-> TRUE, core_w |-> core_w, window_w |-> window_w,
               window_h |-> window_h, r_inner |-> geometry.r_inner,
               r_outer_sq |->
                   IF correct_outer_leg
                   THEN [ rat |-> QSq(geometry.r_inner), per_pi |-> Q(1, 5000) ]
                   ELSE [ rat |-> QAdd(QSq(QHalf(core_w)), QSq(geometry.r_inner)),
                          per_pi |-> QZero ],
               material |-> material, loss_approach |-> loss_approach, mu_rel |-> mu_rel,
               phi_mu_deg |-> phi_mu_deg, non_linear |-> FALSE,
               correct_outer_leg |-> correct_outer_leg, sigma |-> check.sigma,
               permeability_type |-> check.permeability_type ]

\* Core(core_w, window_w, window_h, material, loss_approach, mu_rel, phi_mu_deg, sigma,
\* correct_outer_leg = correct_outer_leg)
Core(core_w, window_w, window_h, material, loss_approach, mu_rel, phi_mu_deg, sigma, correct_outer_leg) ==
    /\ core_call.result = "none"
    /\ core' = CoreConstruct(core_w, window_w, window_h, material, loss_approach, mu_rel,
                             phi_mu_deg, sigma, correct_outer_leg)
    /\ core_call' = [ result |-> IF core'.constructed THEN "ok" ELSE "Exception",
                      material |-> material, loss_approach |-> loss_approach,
                      sigma |-> sigma ]
    /\ UNCHANGED << condVars, gapVars, winVars, mesh, mesh_call, mu_call >>

\* ------------------------------------------------------------------------
\* AirGaps
\* ------------------------------------------------------------------------
\* AirGapLegPosition members and their integer values
LeftLeg == -1
CenterLeg == 0
RightLeg == 1
LegName(leg) == CASE leg = LeftLeg -> "LeftLeg"
                  [] leg = CenterLeg -> "CenterLeg"
                  [] leg = RightLeg -> "RightLeg"

NoGapCall ==
    [ args |-> << >>, result |-> "none", pre_midpoints |-> << >>, pre_number |-> 0,
      pre_settings |-> << >> ]

\* the loop of lines 282-285: some stored gap makes the overlap test true
OverlapRaises(mps, leg_position, height, position_value) ==
    \E index \in 1..Len(mps) :
        /\ mps[index][1] = leg_position
        /\ QLt(QAdd(mps[index][2], mps[index][3]), QSub(position_value, height))
        /\ QLt(QAdd(position_value, height), QSub(mps[index][2], mps[index][3]))

\* the percent position without the shift into the window
PercentPositionUnshifted(window_h, height, position_value) ==
    QSub(QMul(QDiv(position_value, QInt(100)), window_h), QHalf(window_h))

\* lines 303-309: percent of the window height to a position, shifted into the window
PercentPosition(window_h, height, position_value) ==
    LET position == QSub(QMul(QDiv(position_value, QInt(100)), window_h), QHalf(window_h))
    IN  IF QLt(QHalf(window_h), QAdd(position, QHalf(height)))
        THEN QSub(position, QSub(QAdd(position, QHalf(height)), QHalf(window_h)))
        ELSE IF QLt(QSub(position, QHalf(height)), QNeg(QHalf(window_h)))
        THEN QAdd(position, QSub(QNeg(QHalf(window_h)), QSub(position, QHalf(height))))
        ELSE position

\* add_air_gap with the Center limit off by one (number > 1 instead of number >= 1)
NewMidpointCenterTwo(m, mps, num, window_h, leg_position, height, position_value) ==
    IF OverlapRaises(mps, leg_position, height, position_value) THEN None
    ELSE IF leg_position = LeftLeg \/ leg_position = RightLeg THEN None
    ELSE IF m = "Center"
         THEN IF num > 1 THEN None ELSE << 0, QZero, height >>
    ELSE IF m = "Manually" THEN << leg_position, position_value, height >>
    ELSE IF m = "Percent"
         THEN IF QLt(QInt(100), position_value) \/ QLt(position_value, QZero) THEN None
              ELSE << leg_position, PercentPosition(window_h, height, position_value),
                      height >>
    ELSE None

\* add_air_gap: the midpoint appended (None when the call raises)
NewMidpoint(m, mps, num, window_h, leg_position, height, position_value) ==
    IF OverlapRaises(mps, leg_position, height, position_value) THEN None
    ELSE IF leg_position = LeftLeg \/ leg_position = RightLeg THEN None
    ELSE IF m = "Center"
         THEN IF num >= 1 THEN None ELSE << 0, QZero, height >>
    ELSE IF m = "Manually" THEN << leg_position, position_value, height >>
    ELSE IF m = "Percent"
         THEN IF QLt(QInt(100), position_value) \/ QLt(position_value, QZero) THEN None
              ELSE << leg_position, PercentPosition(window_h, height, position_value),
                      height >>
    ELSE None

add_air_gap(leg_position, height, position_value) ==
    LET mp == NewMidpoint(method, midpoints, number, core.window_h, leg_position, height,
                          position_value)
    IN  /\ Len(air_gap_settings) < MaxGapCalls
        /\ air_gap_settings' =
               Append(air_gap_settings, << LegName(leg_position), position_value, height >>)
        /\ IF mp = None
           THEN UNCHANGED << midpoints, number >>
           ELSE /\ midpoints' = Append(midpoints, mp)
                /\ number' = number + 1
        /\ gap_call' = [ args |-> << leg_position, height, position_value >>,
                         result |-> IF mp = None THEN "Exception" ELSE "ok",
                         pre_midpoints |-> midpoints, pre_number |-> number,
                         pre_settings |-> air_gap_settings ]
        /\ UNCHANGED << condVars, core, dataVars, method, winVars >>

\* ------------------------------------------------------------------------
\* Insulation
\* ------------------------------------------------------------------------
\* Insulation.__init__; core_cond and inner_winding_insulations do not exist yet
InsulationInit ==
    [ vww_insulation                |-> None,
      core_cond                     |-> None,
      inner_winding_insulations_set |-> FALSE,
      inner_winding_insulations     |-> << >> ]

OrZero(x) == IF x = None THEN QZero ELSE x

add_core_insulations(top_core, bot_core, left_core, right_core) ==
    /\ ww.constructed = FALSE
    /\ insulation' = [ insulation EXCEPT !.core_cond =
                         << OrZero(top_core), OrZero(bot_core), OrZero(left_core),
                            OrZero(right_core) >> ]
    /\ UNCHANGED << condVars, core, dataVars, gapVars, ww, ww_call >>

\* "inner_winding_insulations is []" compares identity with a fresh list: never true
add_winding_insulations(inner_winding_insulations, virtual_winding_window_insulation) ==
    /\ ww.constructed = FALSE
    /\ insulation' = [ insulation EXCEPT
                         !.inner_winding_insulations_set = TRUE,
                         !.inner_winding_insulations = inner_winding_insulations,
                         !.vww_insulation = OrZero(virtual_winding_window_insulation) ]
    /\ UNCHANGED << condVars, core, dataVars, gapVars, ww, ww_call >>

\* ------------------------------------------------------------------------
\* WindingWindow / VirtualWindingWindow
\* ------------------------------------------------------------------------
\* VirtualWindingWindow.__init__; id stands for the identity of the object, and the
\* attributes that do not exist before a winding is set read NoEnum / << >>
VirtualWindingWindow(id, bot_bound, top_bound, left_bound, right_bound) ==
    [ id             |-> id,
      bot_bound      |-> bot_bound,
      top_bound      |-> top_bound,
      left_bound     |-> left_bound,
      right_bound    |-> right_bound,
      winding_is_set |-> FALSE,
      winding_type   |-> NoEnum,
      winding_scheme |-> NoEnum,
      wrap_para      |-> NoEnum,
      turns          |-> << >>,
      winding_insulation |-> None ]

NoWindingWindow ==
    [ constructed             |-> FALSE,
      max_bot_bound           |-> None,
      max_top_bound           |-> None,
      max_left_bound          |-> None,
      max_right_bound         |-> None,
      vww_insulations         |-> None,
      stray_path              |-> None,
      has_air_gaps            |-> FALSE,
      split_type              |-> NoEnum,
      horizontal_split_factor |-> None,
      vertical_split_factor   |-> None,
      virtual_winding_windows |-> << >>,
      next_id                 |-> 1 ]

NoWindowCall ==
    [ op |-> "none", args |-> << >>, result |-> "none", returned |-> << >>,
      stray |-> FALSE, calls |-> 0, horizontal_split |-> None, pre_vwws |-> << >>,
      combines |-> 0, windings |-> 0 ]

\* WindingWindow.__init__: the four bounds
MaxBotBound(c, ins) == QAdd(QNeg(QHalf(c.window_h)), ins.core_cond[1])
MaxTopBound(c, ins) == QSub(QHalf(c.window_h), ins.core_cond[2])
MaxLeftBound(c, ins) == QAdd(QHalf(c.core_w), ins.core_cond[3])
MaxRightBound(c, ins) == QSub(c.r_inner, ins.core_cond[4])

\* WindingWindow(core, insulations, stray_path, air_gaps); stray_path is None or
\* << start_index >>, with_air_gaps says whether the AirGaps instance is passed
WindingWindowInit(stray_path, with_air_gaps) ==
    /\ ww.constructed = FALSE
    /\ insulation.core_cond # None
    /\ ww' = [ NoWindingWindow EXCEPT
                 !.constructed = TRUE,
                 !.max_bot_bound = MaxBotBound(core, insulation),
                 !.max_top_bound = MaxTopBound(core, insulation),
                 !.max_left_bound = MaxLeftBound(core, insulation),
                 !.max_right_bound = MaxRightBound(core, insulation),
                 !.vww_insulations = insulation.vww_insulation,
                 !.stray_path = stray_path,
                 !.has_air_gaps = with_air_gaps ]
    /\ UNCHANGED << condVars, core, dataVars, gapVars, insulation, ww_call >>

\* line 506: the stray-path branch of split_window is taken
StrayBranch(w, num) ==
    /\ w.stray_path # None
    /\ w.has_air_gaps
    /\ num > w.stray_path[1]

\* lines 507-508 index midpoints[start_index] and midpoints[start_index + 1]
StrayIndexError(w, mps) == Len(mps) < w.stray_path[1] + 2

\* lines 507-511 (Python indices are 0-based)
StrayDistance(w, mps) ==
    LET air_gap_1_position == mps[w.stray_path[1] + 1][2]
        air_gap_2_position == mps[w.stray_path[1] + 2][2]
    IN  QSub(QMax(air_gap_2_position, air_gap_1_position),
             QMin(air_gap_2_position, air_gap_1_position))

\* lines 512 and 516
HorizontalSplitLine(w, mps, num, horizontal_split_factor) ==
    IF StrayBranch(w, num)
    THEN LET air_gap_1_position == mps[w.stray_path[1] + 1][2]
             air_gap_2_position == mps[w.stray_path[1] + 2][2]
         IN  QAdd(QMin(air_gap_2_position, air_gap_1_position),
                  QHalf(StrayDistance(w, mps)))
    ELSE QSub(w.max_top_bound,
              QMul(QAbs(QSub(w.max_bot_bound, w.max_top_bound)), horizontal_split_factor))

\* lines 513 and 517
VerticalSplitLine(w, vertical_split_factor) ==
    QAdd(w.max_left_bound,
         QMul(QSub(w.max_right_bound, w.max_left_bound), vertical_split_factor))

\* the regions of a split with the whole insulation on each side of the split line
SplitRegionsFullGap(w, split_type, horizontal_split, vertical_split, ins) ==
    LET id == w.next_id
        above == QAdd(horizontal_split, ins)
        below == QSub(horizontal_split, ins)
        rightOf == QAdd(vertical_split, ins)
        leftOf == QSub(vertical_split, ins)
    IN  CASE split_type = "NoSplit" ->
               << VirtualWindingWindow(id, w.max_bot_bound, w.max_top_bound,
                                       w.max_left_bound, w.max_right_bound) >>
          [] split_type = "VerticalSplit" ->
               << VirtualWindingWindow(id, w.max_bot_bound, w.max_top_bound,
                                       w.max_left_bound, leftOf),
                  VirtualWindingWindow(id + 1, w.max_bot_bound, w.max_top_bound,
                                       rightOf, w.max_right_bound) >>
          [] split_type = "HorizontalSplit" ->
               << VirtualWindingWindow(id, above, w.max_top_bound,
                                       w.max_left_bound, w.max_right_bound),
                  VirtualWindingWindow(id + 1, w.max_bot_bound, below,
                                       w.max_left_bound, w.max_right_bound) >>
          [] split_type = "HorizontalAndVerticalSplit" ->
               << VirtualWindingWindow(id, above, w.max_top_bound,
                                       w.max_left_bound, leftOf),
                  VirtualWindingWindow(id + 1, above, w.max_top_bound,
                                       rightOf, w.max_right_bound),
                  VirtualWindingWindow(id + 2, w.max_bot_bound, below,
                                       w.max_left_bound, leftOf),
                  VirtualWindingWindow(id + 3, w.max_bot_bound, below,
                                       rightOf, w.max_right_bound) >>

\* lines 520-585: the regions of a split, in the order they are stored
SplitRegions(w, split_type, horizontal_split, vertical_split, ins) ==
    LET id == w.next_id
        above == QAdd(horizontal_split, QHalf(ins))
        below == QSub(horizontal_split, QHalf(ins))
        rightOf == QAdd(vertical_split, QHalf(ins))
        leftOf == QSub(vertical_split, QHalf(ins))
    IN  CASE split_type = "NoSplit" ->
               << VirtualWindingWindow(id, w.max_bot_bound, w.max_top_bound,
                                       w.max_left_bound, w.max_right_bound) >>
          [] split_type = "VerticalSplit" ->
               << VirtualWindingWindow(id, w.max_bot_bound, w.max_top_bound,
                                       w.max_left_bound, leftOf),
                  VirtualWindingWindow(id + 1, w.max_bot_bound, w.max_top_bound,
                                       rightOf, w.max_right_bound) >>
          [] split_type = "HorizontalSplit" ->
               << VirtualWindingWindow(id, above, w.max_top_bound,
                                       w.max_left_bound, w.max_right_bound),
                  VirtualWindingWindow(id + 1, w.max_bot_bound, below,
                                       w.max_left_bound, w.max_right_bound) >>
          [] split_type = "HorizontalAndVerticalSplit" ->
               << VirtualWindingWindow(id, above, w.max_top_bound,
                                       w.max_left_bound, leftOf),
                  VirtualWindingWindow(id + 1, above, w.max_top_bound,
                                       rightOf, w.max_right_bound),
                  VirtualWindingWindow(id + 2, w.max_bot_bound, below,
                                       w.max_left_bound, leftOf),
                  VirtualWindingWindow(id + 3, w.max_bot_bound, below,
                                       rightOf, w.max_right_bound) >>

SplitTypes == { "NoSplit", "VerticalSplit", "HorizontalSplit", "HorizontalAndVerticalSplit" }

\* split_window: the window after the call, how it ended and what it returned
SplitWindow(w, mps, num, split_type, horizontal_split_factor, vertical_split_factor) ==
    LET w1 == [ w EXCEPT !.split_type = split_type,
                         !.horizontal_split_factor = horizontal_split_factor,
                         !.vertical_split_factor = vertical_split_factor ]
        stray == StrayBranch(w, num)
        w2 == IF stray THEN [ w1 EXCEPT !.vww_insulations = StrayDistance(w, mps) ] ELSE w1
        horizontal_split == HorizontalSplitLine(w, mps, num, horizontal_split_factor)
        regions == SplitRegions(w2, split_type, horizontal_split,
                                VerticalSplitLine(w, vertical_split_factor),
                                w2.vww_insulations)
    IN  IF stray /\ StrayIndexError(w, mps)
        THEN [ ww |-> w1, result |-> "IndexError", returned |-> << >>,
               horizontal_split |-> None ]
        ELSE IF split_type \notin SplitTypes
        THEN [ ww |-> w2, result |-> "Exception", returned |-> << >>,
               horizontal_split |-> horizontal_split ]
        ELSE IF split_type # "NoSplit" /\ w2.vww_insulations = None
        THEN [ ww |-> w2, result |-> "TypeError", returned |-> << >>,
               horizontal_split |-> horizontal_split ]
        ELSE [ ww |-> [ w2 EXCEPT !.virtual_winding_windows = regions,
                                  !.next_id = w.next_id + Len(regions) ],
               result |-> "ok", returned |-> regions,
               horizontal_split |-> horizontal_split ]

split_window(split_type, horizontal_split_factor, vertical_split_factor) ==
    LET out == SplitWindow(ww, midpoints, number, split_type, horizontal_split_factor,
                           vertical_split_factor)
    IN  /\ ww.constructed
        /\ ww_call.calls < MaxSplits
        /\ ww' = out.ww
        /\ ww_call' = [ ww_call EXCEPT
                          !.op = "split_window",
                          !.args = << split_type, horizontal_split_factor,
                                      vertical_split_factor >>,
                          !.result = out.result,
                          !.returned = out.returned,
                          !.stray = StrayBranch(ww, number),
                          !.calls = ww_call.calls + 1,
                          !.horizontal_split = out.horizontal_split,
                          !.pre_vwws = ww.virtual_winding_windows ]
        /\ UNCHANGED << condVars, core, dataVars, gapVars, insulation >>

\* list.index(vww): the position of the object in the stored list, 0 when it is
\* not there (list.index then raises ValueError); objects compare by identity
RECURSIVE IndexOfFrom(_, _, _)
IndexOfFrom(vwws, id, i) ==
    IF i > Len(vwws) THEN 0
    ELSE IF vwws[i].id = id THEN i
    ELSE IndexOfFrom(vwws, id, i + 1)
IndexOf(vwws, id) == IndexOfFrom(vwws, id, 1)

\* list.remove(vww) of an object that is in the list
RemoveAt(vwws, i) == SubSeq(vwws, 1, i - 1) \o SubSeq(vwws, i + 1, Len(vwws))

\* lines 600-603: the region made from two regions
CombinedRegion(id, vww1, vww2) ==
    VirtualWindingWindow(id, QMin(vww1.bot_bound, vww2.bot_bound),
                         QMax(vww1.top_bound, vww2.top_bound),
                         QMin(vww1.left_bound, vww2.left_bound),
                         QMax(vww1.right_bound, vww2.right_bound))

\* combine_vww rejecting every index distance of 1 or more (instead of exactly 3)
CombineVwwRejectAll(w, id1, id2) ==
    LET vwws == w.virtual_winding_windows
        index1 == IndexOf(vwws, id1)
        index2 == IndexOf(vwws, id2)
    IN  IF index1 = 0 \/ index2 = 0
        THEN [ ww |-> w, result |-> "ValueError", returned |-> << >> ]
        ELSE IF IAbs(index2 - index1) >= 1
        THEN [ ww |-> w, result |-> "Exception", returned |-> << >> ]
        ELSE [ ww |-> [ w EXCEPT !.virtual_winding_windows = RemoveAt(vwws, index1) ],
               result |-> "ValueError", returned |-> << >> ]

\* combine_vww(vww1, vww2); the arguments are objects, given by their identity
CombineVww(w, id1, id2) ==
    LET vwws == w.virtual_winding_windows
        index1 == IndexOf(vwws, id1)
        index2 == IndexOf(vwws, id2)
        without1 == RemoveAt(vwws, index1)
        new_vww == CombinedRegion(w.next_id, vwws[index1], vwws[index2])
    IN  IF index1 = 0 \/ index2 = 0
        THEN [ ww |-> w, result |-> "ValueError", returned |-> << >> ]
        ELSE IF IAbs(index2 - index1) = 3
        THEN [ ww |-> w, result |-> "Exception", returned |-> << >> ]
        ELSE IF id1 = id2
        THEN \* the second remove does not find the object any more
             [ ww |-> [ w EXCEPT !.virtual_winding_windows = without1 ],
               result |-> "ValueError", returned |-> << >> ]
        ELSE [ ww |-> [ w EXCEPT
                          !.virtual_winding_windows =
                              Append(RemoveAt(without1, IndexOf(without1, id2)), new_vww),
                          !.next_id = w.next_id + 1 ],
               result |-> "ok", returned |-> << new_vww >> ]

combine_vww(id1, id2) ==
    LET out == CombineVww(ww, id1, id2)
    IN  /\ ww.constructed
        /\ ww_call.combines < MaxCombines
        /\ ww' = out.ww
        /\ ww_call' = [ ww_call EXCEPT
                          !.op = "combine_vww",
                          !.args = << id1, id2 >>,
                          !.result = out.result,
                          !.returned = out.returned,
                          !.pre_vwws = ww.virtual_winding_windows,
                          !.combines = ww_call.combines + 1 ]
        /\ UNCHANGED << condVars, core, dataVars, gapVars, insulation >>

\* WindingScheme.FoilVertical and some other member of the enumeration
FoilVertical == "FoilVertical"
OtherScheme == "Square"

\* set_winding(conductor, turns, winding_scheme, wrap_para_type): the six
\* assignments, then the check (the conductor reference is not kept in the model)
SetWinding(vww, c, turns, winding_scheme, wrap_para_type) ==
    [ vww |-> [ vww EXCEPT !.winding_type = "Single",
                           !.winding_scheme = winding_scheme,
                           !.turns = << turns >>,
                           !.winding_is_set = TRUE,
                           !.wrap_para = wrap_para_type ],
      result |-> IF winding_scheme = FoilVertical /\ wrap_para_type = NoEnum
                 THEN "Exception" ELSE "ok" ]

\* set_winding on the region at position index of the stored list
set_winding(index, turns, winding_scheme, wrap_para_type) ==
    /\ ww.constructed
    /\ index \in 1..Len(ww.virtual_winding_windows)
    /\ ww_call.windings < MaxSetWindings
    /\ LET out == SetWinding(ww.virtual_winding_windows[index], conductor, turns,
                             winding_scheme, wrap_para_type)
       IN  /\ ww' = [ ww EXCEPT !.virtual_winding_windows[index] = out.vww ]
           /\ ww_call' = [ ww_call EXCEPT
                             !.op = "set_winding",
                             !.args = << ww.virtual_winding_windows[index].id, turns,
                                         winding_scheme, wrap_para_type >>,
                             !.result = out.result,
                             !.returned = << >>,
                             !.pre_vwws = ww.virtual_winding_windows,
                             !.windings = ww_call.windings + 1 ]
    /\ UNCHANGED << condVars, core, dataVars, gapVars, insulation >>

\* set_interleaved_winding(conductor1, turns1, conductor2, turns2, winding_scheme,
\* winding_insulation) on the region at position index of the stored list
set_interleaved_winding(index, turns1, turns2, winding_scheme, winding_insulation) ==
    /\ ww.constructed
    /\ index \in 1..Len(ww.virtual_winding_windows)
    /\ ww_call.windings < MaxSetWindings
    /\ ww' = [ ww EXCEPT !.virtual_winding_windows[index] =
                 [ @ EXCEPT !.winding_type = "Interleaved",
                            !.winding_scheme = winding_scheme,
                            !.turns = << turns1, turns2 >>,
                            !.winding_is_set = TRUE,
                            !.winding_insulation = winding_insulation,
                            !.wrap_para = NoEnum ] ]
    /\ ww_call' = [ ww_call EXCEPT
                      !.op = "set_interleaved_winding",
                      !.args = << ww.virtual_winding_windows[index].id, turns1, turns2,
                                  winding_scheme, winding_insulation >>,
                      !.result = "ok",
                      !.returned = << >>,
                      !.pre_vwws = ww.virtual_winding_windows,
                      !.windings = ww_call.windings + 1 ]
    /\ UNCHANGED << condVars, core, dataVars, gapVars, insulation >>

\* ------------------------------------------------------------------------
\* Specifications
\* ------------------------------------------------------------------------
ScenarioCore == CoreInit(Q(1, 50), Q(1, 100), Q(3, 100))

GapsStart(m) ==
    /\ method = m
    /\ midpoints = << >>
    /\ number = 0
    /\ air_gap_settings = << >>
    /\ gap_call = NoGapCall

WindowStart ==
    /\ insulation = InsulationInit
    /\ ww = NoWindingWindow
    /\ ww_call = NoWindowCall

\* no MeshData built and no permeability evaluated
DataStart ==
    /\ mesh = NoMesh
    /\ mesh_call = NoMeshCall
    /\ mu_call = NoMuCall
    /\ core_call = NoCoreCall

\* one Conductor and the calls that configure it
InitConductor ==
    /\ ConductorStart
    /\ core = ScenarioCore
    /\ GapsStart("Manually")
    /\ WindowStart
    /\ DataStart

NextConductor == ConductorNext

SpecConductor == InitConductor /\ [][NextConductor]_vars

\* one AirGaps of any method and the gaps added to it
Legs == { LeftLeg, CenterLeg, RightLeg }
Heights == { Q(1, 500), Q(1, 50), Q(1, 25) }
PositionValues(m) ==
    IF m = "Percent" THEN { QInt(-10), QInt(0), QInt(50), QInt(100), QInt(110) }
    ELSE { Q(-1, 100), QZero, Q(1, 200) }

InitAirGaps ==
    /\ ConductorStart
    /\ core = ScenarioCore
    /\ \E m \in { "Center", "Manually", "Percent" } : GapsStart(m)
    /\ WindowStart
    /\ DataStart

NextAirGaps ==
    \E leg \in Legs, h \in Heights, pv \in PositionValues(method) : add_air_gap(leg, h, pv)

SpecAirGaps == InitAirGaps /\ [][NextAirGaps]_vars

\* a Core, an Insulation, an AirGaps and the WindingWindow built from them
TopClearances == { None, Q(1, 1000) }
BotClearances == { None, Q(1, 500) }
LeftClearances == { None, Q(3, 1000) }
VwwInsulations == { None, Q(1, 1000) }
WindingInsulationLists == { << Q(1, 10000) >> }
StrayPaths == { None, << 0 >>, << 1 >> }
SplitFactors == { Q(1, 2), Q(1, 4) }
SplitTypeInputs == SplitTypes \cup { "Unknown" }
WindowGapPositions == { Q(-1, 100), Q(1, 200) }

Init ==
    /\ ConductorStart
    /\ core = ScenarioCore
    /\ GapsStart("Manually")
    /\ WindowStart
    /\ DataStart

Next ==
    \/ \E pv \in WindowGapPositions : add_air_gap(CenterLeg, Q(1, 500), pv)
    \/ \E t \in TopClearances, b \in BotClearances, l \in LeftClearances :
          add_core_insulations(t, b, l, None)
    \/ \E l \in WindingInsulationLists, v \in VwwInsulations : add_winding_insulations(l, v)
    \/ \E sp \in StrayPaths, ag \in BOOLEAN : WindingWindowInit(sp, ag)
    \/ \E st \in SplitTypeInputs, hf \in SplitFactors, vf \in SplitFactors :
          split_window(st, hf, vf)

Spec == Init /\ [][Next]_vars

\* a WindingWindow that is split and whose regions are combined
CombineSplitTypes == { "HorizontalAndVerticalSplit", "HorizontalSplit" }
CombineArguments ==
    { ww.virtual_winding_windows[i].id : i \in 1..Len(ww.virtual_winding_windows) }
        \cup (IF ww_call.op = "combine_vww" THEN { ww_call.args[1] } ELSE { })

NextCombine ==
    \/ add_core_insulations(Q(1, 1000), Q(1, 500), None, None)
    \/ add_winding_insulations(<< Q(1, 10000) >>, Q(1, 1000))
    \/ WindingWindowInit(None, FALSE)
    \/ \E st \in CombineSplitTypes, hf \in SplitFactors : split_window(st, hf, Q(1, 2))
    \/ \E id1 \in CombineArguments, id2 \in CombineArguments : combine_vww(id1, id2)

SpecCombine == Init /\ [][NextCombine]_vars

\* a WindingWindow that is split and whose regions are given windings
WindingSchemes == { FoilVertical, OtherScheme }
WrapParaTypes == { NoEnum, "FixedThickness" }
TurnCounts == { 7, 10 }

NextWinding ==
    \/ \E t \in TopClearances : add_core_insulations(t, Q(1, 500), None, None)
    \/ add_winding_insulations(<< Q(1, 10000) >>, Q(1, 1000))
    \/ WindingWindowInit(None, FALSE)
    \/ \E st \in SplitTypes, hf \in SplitFactors : split_window(st, hf, Q(1, 2))
    \/ \E i \in 1..4, n \in TurnCounts, ws \in WindingSchemes, wp \in WrapParaTypes :
          set_winding(i, n, ws, wp)
    \/ \E i \in 1..4, n \in TurnCounts : set_interleaved_winding(i, n, 3, "Horizontal", Q(1, 2000))

SpecWinding == Init /\ [][NextWinding]_vars

\* a MeshData over one or two configured conductors and its updates
Sigmas == { QInt(58000000), QInt(37000000) }
MeshConductors ==
    { ConductorInit,
      SetSolidRound(ConductorInit, Q(1, 1000), "Square").cond,
      SetSolidRound(ConductorInit, Q(1, 5000), "Square").cond,
      SetLitzRound(ConductorInit, Q(1, 1000), QInt(240), Q(1, 20000), None, "Square").cond }
FirstWindings == { MeshWinding(sg, c) : sg \in Sigmas, c \in MeshConductors }
SecondWindings == { MeshWinding(QInt(37000000), c) : c \in MeshConductors }
WindingLists ==
    { << w >> : w \in FirstWindings }
        \cup { << w1, w2 >> : w1 \in FirstWindings, w2 \in SecondWindings }
Accuracies == { QInt(1), Q(1, 2) }
Frequencies == { None, QZero, QInt(100000), QInt(200000) }
SkinMeshFactors == { Q(1, 2), Q(3, 10) }

InitMesh ==
    /\ ConductorStart
    /\ core = ScenarioCore
    /\ GapsStart("Manually")
    /\ WindowStart
    /\ \E acc \in Accuracies, ws \in WindingLists :
          mesh = MeshDataInit(acc, Q(3, 2), Mu0Coef, core.core_w, core.window_w, ws)
    /\ mesh_call = NoMeshCall
    /\ mu_call = NoMuCall
    /\ core_call = NoCoreCall

NextMesh == \E f \in Frequencies, smf \in SkinMeshFactors : update_data(f, smf)

SpecMesh == InitMesh /\ [][NextMesh]_vars

\* one evaluation of the N95 imaginary-permeability functions
Sampled200 == { N95_200000[i][1] : i \in 1..Len(N95_200000) }
Sampled300 == { N95_300000[i][1] : i \in 1..Len(N95_300000) }
FluxDensities ==
    Sampled200 \cup Sampled300
        \cup { QInt(-1), QInt(43000), QInt(43500), QInt(43800), QInt(44000) }
MuFrequencies ==
    { QInt(100000), QInt(150000), QInt(200000), QInt(225000), QInt(250000), QInt(275000),
      QInt(300000), QInt(350000), QInt(400000) }

NextPermeability ==
    \/ \E b \in FluxDensities : f_N95_mu_imag_single("f_N95_mu_imag_200000", N95_200000, b)
    \/ \E b \in FluxDensities : f_N95_mu_imag_single("f_N95_mu_imag_300000", N95_300000, b)
    \/ \E f \in MuFrequencies, b \in FluxDensities : f_N95_mu_imag(f, b)

SpecPermeability == Init /\ [][NextPermeability]_vars

\* the construction of one Core
CoreWidths == { Q(1, 50), Q(3, 100) }
WindowWidths == { Q(1, 100), Q(1, 50) }
Materials == { "custom", "95_100" }
LossApproaches == { "Steinmetz", "LossAngle", "Unknown" }
LossAngles == { None, QZero, QInt(10) }
CoreSigmas == { None, Q(1, 2) }

InitCore ==
    /\ ConductorStart
    /\ core = NoCore
    /\ GapsStart("Manually")
    /\ WindowStart
    /\ DataStart

NextCore ==
    \E cw \in CoreWidths, ww_ \in WindowWidths, m \in Materials, la \in LossApproaches,
       phi \in LossAngles, sg \in CoreSigmas, col \in BOOLEAN :
        Core(cw, ww_, Q(3, 100), m, la, QInt(3000), phi, sg, col)

SpecCore == InitCore /\ [][NextCore]_vars

\* one Insulation and the calls that configure it
RightClearances == { None, Q(1, 2000) }
InsulationLists == { << >>, << Q(1, 10000) >>, << Q(1, 10000), Q(1, 5000) >> }

NextInsulation ==
    \/ \E t \in TopClearances, b \in BotClearances, l \in LeftClearances,
          r \in RightClearances : add_core_insulations(t, b, l, r)
    \/ \E l \in InsulationLists, v \in VwwInsulations : add_winding_insulations(l, v)

SpecInsulation == Init /\ [][NextInsulation]_vars

\* ------------------------------------------------------------------------
\* Properties of Conductor (checked under SpecConductor)
\* ------------------------------------------------------------------------
LitzNoneCount == Cardinality({ i \in 1..4 : cond_call.args[i] = None })
FreshLitzCall == cond_call.op = "litz" /\ ~cond_call.pre.conductor_is_set
GivenRadius == cond_call.args[1]
GivenStrands == cond_call.args[2]
GivenStrandRadius == cond_call.args[3]
GivenFill == cond_call.args[4]

\* C1: once one set_* call has been made on a Conductor, every later set_* call
\* raises and leaves every attribute of the conductor as it was.
C1_SecondSetRaises ==
    cond_calls >= 2 =>
        /\ cond_call.result = "Exception"
        /\ conductor = cond_call.pre

\* a solid-round call on a conductor that a litz call configured has been rejected
C1_Witness ==
    /\ cond_calls = 2
    /\ cond_call.op = "solid"
    /\ cond_call.pre.conductor_type = "RoundLitz"
    /\ cond_call.result = "Exception"
    /\ conductor.conductor_type = "RoundLitz"

\* C2: a litz call on an unconfigured conductor with exactly one None among the four
\* parameters completes without error; the three given values are stored unchanged
\* and the fourth is n = r^2 / r_s^2 * ff, r = sqrt(n r_s^2 / ff),
\* ff = round(n r_s^2 / r^2, 2) or r_s = sqrt(r^2 ff / n).
C2_OneMissingIsSolved ==
    (FreshLitzCall /\ LitzNoneCount = 1) =>
        /\ cond_call.result = "ok"
        /\ conductor.n_strands =
             IF GivenStrands = None
             THEN QMul(QDiv(QSq(conductor.conductor_radius), QSq(conductor.strand_radius)),
                       conductor.ff)
             ELSE GivenStrands
        /\ IF GivenRadius = None
           THEN QSq(conductor.conductor_radius) =
                  QDiv(QMul(GivenStrands, QSq(GivenStrandRadius)), GivenFill)
           ELSE conductor.conductor_radius = GivenRadius
        /\ conductor.ff =
             IF GivenFill = None
             THEN Around2(QDiv(QMul(GivenStrands, QSq(GivenStrandRadius)), QSq(GivenRadius)))
             ELSE GivenFill
        /\ IF GivenStrandRadius = None
           THEN QSq(conductor.strand_radius) =
                  QDiv(QMul(QSq(GivenRadius), GivenFill), GivenStrands)
           ELSE conductor.strand_radius = GivenStrandRadius

RederivedStrands ==
    QMul(QDiv(QSq(conductor.conductor_radius), QSq(conductor.strand_radius)), conductor.ff)
RederivedRadiusSq ==
    QDiv(QMul(conductor.n_strands, QSq(conductor.strand_radius)), conductor.ff)
RederivedStrandRadiusSq ==
    QDiv(QMul(QSq(conductor.conductor_radius), conductor.ff), conductor.n_strands)
RederivedFill ==
    Around2(QDiv(QMul(conductor.n_strands, QSq(conductor.strand_radius)),
                 QSq(conductor.conductor_radius)))
ExactFill == QDiv(QMul(GivenStrands, QSq(GivenStrandRadius)), QSq(GivenRadius))

\* C4 as stated: whichever parameter is omitted, re-deriving each of the three given
\* parameters from the solved one and the other two returns the given value.
C4_RoundTripAsStated ==
    (FreshLitzCall /\ LitzNoneCount = 1) =>
        /\ GivenStrands # None => RederivedStrands = GivenStrands
        /\ GivenRadius # None => RederivedRadiusSq = QSq(GivenRadius)
        /\ GivenStrandRadius # None => RederivedStrandRadiusSq = QSq(GivenStrandRadius)
        /\ GivenFill # None => RederivedFill = GivenFill

\* C4 amended: when the omitted parameter is not the fill factor, the re-derived
\* radius, strand count and strand radius equal the given ones and the re-derived
\* fill factor is the given one rounded to two decimals; when the fill factor is
\* omitted, the solved value is within 0.005 of n r_s^2 / r^2.
C4_RoundTripUpToRounding ==
    (FreshLitzCall /\ LitzNoneCount = 1) =>
        IF GivenFill = None
        THEN QLe(QAbs(QSub(conductor.ff, ExactFill)), Q(1, 200))
        ELSE /\ GivenStrands # None => RederivedStrands = GivenStrands
             /\ GivenRadius # None => RederivedRadiusSq = QSq(GivenRadius)
             /\ GivenStrandRadius # None =>
                    RederivedStrandRadiusSq = QSq(GivenStrandRadius)
             /\ RederivedFill = Around2(GivenFill)

\* the strand count was solved from a fill factor with three decimals
C4_Witness ==
    /\ FreshLitzCall
    /\ LitzNoneCount = 1
    /\ GivenStrands = None
    /\ GivenFill = Q(5, 8)
    /\ conductor.n_strands = QInt(250)
    /\ RederivedFill = Q(31, 50)

\* ------------------------------------------------------------------------
\* Properties of AirGaps (checked under SpecAirGaps)
\* ------------------------------------------------------------------------
HalfWindow == QHalf(core.window_h)
GapInside(mp) ==
    /\ QLe(QNeg(HalfWindow), QSub(mp[2], QHalf(mp[3])))
    /\ QLe(QAdd(mp[2], QHalf(mp[3])), HalfWindow)

\* C5: under the Percent method every stored gap with height < window_h lies with
\* [pos - height/2, pos + height/2] inside [-window_h/2, window_h/2], and a centre-leg
\* call with position_value in [0, 100] is never rejected.
C5_PercentGapInsideWindow ==
    method = "Percent" =>
        /\ \A i \in 1..Len(midpoints) :
               QLt(midpoints[i][3], core.window_h) => GapInside(midpoints[i])
        /\ ( /\ gap_call.result # "none"
             /\ gap_call.args[1] = CenterLeg
             /\ QLe(QZero, gap_call.args[3])
             /\ QLe(gap_call.args[3], QInt(100)) ) => gap_call.result = "ok"

\* a gap asked for at 100 percent has been stored shifted down by half its height
C5_Witness ==
    /\ method = "Percent"
    /\ gap_call.result = "ok"
    /\ gap_call.args = << CenterLeg, Q(1, 50), QInt(100) >>
    /\ midpoints[Len(midpoints)] = << CenterLeg, Q(1, 200), Q(1, 50) >>

\* the intervals [pos - height, pos + height] of two midpoints share a point
GapsOverlap(a, b) ==
    /\ QLe(QSub(a[2], a[3]), QAdd(b[2], b[3]))
    /\ QLe(QSub(b[2], b[3]), QAdd(a[2], a[3]))

\* C6: no two stored gaps on the same leg have overlapping intervals
\* [pos - height, pos + height].
C6_NoOverlappingGaps ==
    \A i \in 1..Len(midpoints), j \in 1..Len(midpoints) :
        (i < j /\ midpoints[i][1] = midpoints[j][1]) =>
            ~GapsOverlap(midpoints[i], midpoints[j])

\* C7: under the Center method at most one gap is stored, it is (0, 0, height)
\* whatever leg and position were passed, and every call made once a gap is stored
\* raises and stores nothing.
C7_CenterHoldsOneGap ==
    method = "Center" =>
        /\ Len(midpoints) <= 1
        /\ number = Len(midpoints)
        /\ gap_call.result = "ok" => midpoints = << << 0, QZero, gap_call.args[2] >> >>
        /\ (gap_call.result # "none" /\ gap_call.pre_number >= 1) =>
               /\ gap_call.result = "Exception"
               /\ midpoints = gap_call.pre_midpoints

\* a centre-leg call has been rejected after a gap given with a non-zero position
\* value was stored at position 0
C7_Witness ==
    /\ method = "Center"
    /\ gap_call.pre_number = 1
    /\ gap_call.args[1] = CenterLeg
    /\ gap_call.result = "Exception"
    /\ air_gap_settings[1][2] = Q(1, 200)
    /\ midpoints = << << 0, QZero, air_gap_settings[1][3] >> >>

\* ------------------------------------------------------------------------
\* Properties of WindingWindow (checked under Spec)
\* ------------------------------------------------------------------------
TopCore == insulation.core_cond[1]
BotCore == insulation.core_cond[2]
LeftCore == insulation.core_cond[3]
RightCore == insulation.core_cond[4]

\* C8: the maximal rectangle uses the clearance of its own side:
\* max_bot_bound = -window_h/2 + bot_core, max_top_bound = window_h/2 - top_core,
\* max_left_bound = core_w/2 + left_core, max_right_bound = r_inner - right_core.
C8_BoundsUseOwnClearance ==
    ww.constructed =>
        /\ ww.max_bot_bound = QAdd(QNeg(QHalf(core.window_h)), BotCore)
        /\ ww.max_top_bound = QSub(QHalf(core.window_h), TopCore)
        /\ ww.max_left_bound = QAdd(QHalf(core.core_w), LeftCore)
        /\ ww.max_right_bound = QSub(core.r_inner, RightCore)

SplitCalled(split_type) == ww_call.op = "split_window" /\ ww_call.args[1] = split_type
SameBounds(v, bot, top, left, right) ==
    /\ v.bot_bound = bot
    /\ v.top_bound = top
    /\ v.left_bound = left
    /\ v.right_bound = right
ZeroClearances == insulation.core_cond = << QZero, QZero, QZero, QZero >>

\* C9: split_window(NoSplit) returns exactly one region with the maximal bounds,
\* for every split factor and with or without a stray path, and the stored list
\* holds exactly that region; with core_w = 0.02, window_w = 0.01, window_h = 0.03
\* and zero clearances the bounds are -0.015, 0.015, 0.01, 0.02.
C9_NoSplitReturnsMaximal ==
    SplitCalled("NoSplit") =>
        /\ ww_call.result = "ok"
        /\ Len(ww_call.returned) = 1
        /\ SameBounds(ww_call.returned[1], ww.max_bot_bound, ww.max_top_bound,
                      ww.max_left_bound, ww.max_right_bound)
        /\ ww.virtual_winding_windows = ww_call.returned
        /\ ZeroClearances =>
               SameBounds(ww_call.returned[1], Q(-15, 1000), Q(15, 1000),
                          Q(1, 100), Q(2, 100))

\* the four quadrants, as returned: top_left, top_right, bot_left, bot_right
Quadrants == ww_call.returned
UnionIsMaximal ==
    /\ QMin(QMin(Quadrants[1].bot_bound, Quadrants[2].bot_bound),
            QMin(Quadrants[3].bot_bound, Quadrants[4].bot_bound)) = ww.max_bot_bound
    /\ QMax(QMax(Quadrants[1].top_bound, Quadrants[2].top_bound),
            QMax(Quadrants[3].top_bound, Quadrants[4].top_bound)) = ww.max_top_bound
    /\ QMin(QMin(Quadrants[1].left_bound, Quadrants[2].left_bound),
            QMin(Quadrants[3].left_bound, Quadrants[4].left_bound)) = ww.max_left_bound
    /\ QMax(QMax(Quadrants[1].right_bound, Quadrants[2].right_bound),
            QMax(Quadrants[3].right_bound, Quadrants[4].right_bound)) = ww.max_right_bound
QuadrantGapsEqual(gap) ==
    /\ QSub(Quadrants[2].left_bound, Quadrants[1].right_bound) = gap
    /\ QSub(Quadrants[4].left_bound, Quadrants[3].right_bound) = gap
    /\ QSub(Quadrants[1].bot_bound, Quadrants[3].top_bound) = gap
    /\ QSub(Quadrants[2].bot_bound, Quadrants[4].top_bound) = gap
FourQuadrantsStored ==
    /\ Len(Quadrants) = 4
    /\ ww.virtual_winding_windows = Quadrants

NoStrayBranch == ~ww_call.stray

CombineCalled == ww_call.op = "combine_vww"
\* positions of the two arguments in the list the call found (0: not in the list)
Pos1 == IndexOf(ww_call.pre_vwws, ww_call.args[1])
Pos2 == IndexOf(ww_call.pre_vwws, ww_call.args[2])
StoredIds == { ww.virtual_winding_windows[i].id : i \in 1..Len(ww.virtual_winding_windows) }
\* the list the call found without its two arguments, order kept
RECURSIVE Without(_, _)
Without(vwws, ids) ==
    IF vwws = << >> THEN << >>
    ELSE IF Head(vwws).id \in ids THEN Without(Tail(vwws), ids)
    ELSE << Head(vwws) >> \o Without(Tail(vwws), ids)

DiagonalPair ==
    /\ CombineCalled
    /\ ww.split_type = "HorizontalAndVerticalSplit"
    /\ Len(ww_call.pre_vwws) = 4
    /\ << Pos1, Pos2 >> \in { << 1, 4 >>, << 4, 1 >>, << 2, 3 >>, << 3, 2 >> }

\* C19: after split_window(HorizontalAndVerticalSplit), combine_vww fails for every
\* pair of diagonally-opposite quadrants, and stores no region merged from them.
C19_DiagonalCombineFails ==
    DiagonalPair =>
        /\ ww_call.result # "ok"
        /\ ww.virtual_winding_windows = ww_call.pre_vwws

\* ------------------------------------------------------------------------
\* Properties of MeshData (checked under SpecMesh)
\* ------------------------------------------------------------------------
Positive(f) == f # None /\ QLt(QZero, f)

\* C12: update_data sets delta to exactly 1e9 when the frequency is 0, and of two
\* updates of the same MeshData with frequencies 0 < f1 < f2 the one with f2 gives
\* the strictly smaller delta.
C12_SkinDepthSentinelAndMonotone ==
    /\ (mesh_call.calls >= 1 /\ mesh_call.frequency = QZero) =>
           mesh.delta = Rat(QInt(1000000000))
    /\ ( /\ mesh_call.calls >= 2
         /\ Positive(mesh_call.frequency)
         /\ Positive(mesh_call.prev_frequency) ) =>
           /\ QLt(mesh_call.prev_frequency, mesh_call.frequency) =>
                  Below(mesh_call.delta, mesh_call.prev_delta)
           /\ QLt(mesh_call.frequency, mesh_call.prev_frequency) =>
                  Below(mesh_call.prev_delta, mesh_call.delta)

\* copper: the update at 200 kHz gave sqrt(1/4640000)/pi after sqrt(1/2320000)/pi
\* at 100 kHz
C12_Witness ==
    /\ mesh_call.calls = 2
    /\ mesh.windings[1].cond_sigma = QInt(58000000)
    /\ mesh_call.prev_frequency = QInt(100000)
    /\ mesh_call.frequency = QInt(200000)
    /\ mesh_call.prev_delta = Root(Q(1, 2320000), -1)
    /\ mesh.delta = Root(Q(1, 4640000), -1)

\* ------------------------------------------------------------------------
\* Properties of AnalyticalCoreData (checked under SpecPermeability)
\* ------------------------------------------------------------------------
MuImagCalled(f) == mu_call.op = "f_N95_mu_imag" /\ mu_call.f = QInt(f)
InBothRanges(b) == ~OutOfRange(N95_200000, b) /\ ~OutOfRange(N95_300000, b)

\* C13: at every flux density sampled by the 200 kHz curve f_N95_mu_imag(200000, b)
\* is f_N95_mu_imag_200000(b), at every flux density sampled by the 300 kHz curve
\* f_N95_mu_imag(300000, b) is f_N95_mu_imag_300000(b), and at every sampled flux
\* density where both curves have a value f_N95_mu_imag(250000, b) is their mean.
C13_ReferenceCurvesAndMidpoint ==
    /\ (MuImagCalled(200000) /\ mu_call.b \in Sampled200) =>
           /\ mu_call.result = "ok"
           /\ mu_call.value = Interp1d(N95_200000, mu_call.b)
    /\ (MuImagCalled(300000) /\ mu_call.b \in Sampled300) =>
           /\ mu_call.result = "ok"
           /\ mu_call.value = Interp1d(N95_300000, mu_call.b)
    /\ ( /\ MuImagCalled(250000)
         /\ mu_call.b \in Sampled200 \cup Sampled300
         /\ InBothRanges(mu_call.b) ) =>
           /\ mu_call.result = "ok"
           /\ mu_call.value =
                  QHalf(QAdd(Interp1d(N95_200000, mu_call.b), Interp1d(N95_300000, mu_call.b)))

\* ------------------------------------------------------------------------
\* Properties of Core (checked under SpecCore)
\* ------------------------------------------------------------------------
CoreCalled(loss_approach, material) ==
    /\ core_call.result # "none"
    /\ core_call.loss_approach = loss_approach
    /\ core_call.material = material

\* C14: constructing a Core with a Steinmetz loss approach and material "custom", or
\* with a LossAngle loss approach, material "custom" and sigma None, raises; so no
\* constructed Core has loss approach LossAngle, material "custom" and sigma None.
C14_InconsistentPairingRaises ==
    /\ CoreCalled("Steinmetz", "custom") => core_call.result = "Exception"
    /\ (CoreCalled("LossAngle", "custom") /\ core_call.sigma = None) =>
           core_call.result = "Exception"
    /\ ~( /\ core.constructed
          /\ core.loss_approach = "LossAngle"
          /\ core.material = "custom"
          /\ core.sigma = NoSigma )

\* ------------------------------------------------------------------------
\* Properties of Insulation (checked under SpecInsulation)
\* ------------------------------------------------------------------------
\* C15: once the winding insulations of an Insulation are set, the stored list is
\* not empty: add_winding_insulations with an empty list raises and stores nothing.
C15_WindingInsulationsNonEmpty ==
    insulation.inner_winding_insulations_set =>
        insulation.inner_winding_insulations # << >>

\* ------------------------------------------------------------------------
\* Properties of VirtualWindingWindow (checked under SpecWinding)
\* ------------------------------------------------------------------------
FoilVerticalWithoutWrapPara(vww) ==
    /\ vww.winding_is_set
    /\ vww.winding_type = "Single"
    /\ vww.winding_scheme = FoilVertical
    /\ vww.wrap_para = NoEnum

\* C16: no VirtualWindingWindow marked winding_is_set holds a Single winding with
\* scheme FoilVertical and no wrap-parameter type: set_winding with FoilVertical and
\* wrap_para_type None raises and leaves the window as it was.
C16_FoilVerticalNeedsWrapPara ==
    /\ \A i \in 1..Len(ww.virtual_winding_windows) :
           ~FoilVerticalWithoutWrapPara(ww.virtual_winding_windows[i])
    /\ ( /\ ww_call.op = "set_winding"
         /\ ww_call.args[3] = FoilVertical
         /\ ww_call.args[4] = NoEnum ) =>
           /\ ww_call.result = "Exception"
           /\ ww.virtual_winding_windows = ww_call.pre_vwws

\* ------------------------------------------------------------------------
\* Further properties of AirGaps (checked under SpecAirGaps)
\* ------------------------------------------------------------------------
\* C17: a rejected add_air_gap call leaves midpoints, number and the recorded
\* air_gap_settings as they were, so the number of recorded settings always equals
\* the number of stored gaps.
C17_RejectedCallChangesNothing ==
    /\ gap_call.result = "Exception" =>
           /\ midpoints = gap_call.pre_midpoints
           /\ number = gap_call.pre_number
           /\ air_gap_settings = gap_call.pre_settings
    /\ Len(air_gap_settings) = Len(midpoints)

\* C20: the midpoint list is sorted from the lowest to the highest axial position.
C20_MidpointsSorted ==
    \A i \in 1..Len(midpoints), j \in 1..Len(midpoints) :
        i < j => QLe(midpoints[i][2], midpoints[j][2])

\* ------------------------------------------------------------------------
\* Further properties of WindingWindow (checked under Spec)
\* ------------------------------------------------------------------------
SplitDone == ww_call.op = "split_window"
\* axial positions of the two air gaps the stray path refers to (0-based indices
\* start_index and start_index + 1)
StrayGap1 == midpoints[ww.stray_path[1] + 1][2]
StrayGap2 == midpoints[ww.stray_path[1] + 2][2]

\* C18: when split_window finds a StrayPath and an AirGaps with more gaps than the
\* start index, the horizontal split line is the midpoint between the positions of
\* the air gaps start_index and start_index + 1 and the vww insulation used is the
\* distance between them; in every other case the horizontal split is
\* max_top_bound - |max_bot_bound - max_top_bound| * horizontal_split_factor and the
\* configured vww insulation is used.
C18_StraySplitLine ==
    SplitDone =>
        IF ww_call.stray
        THEN /\ ww_call.result # "IndexError"
             /\ ww_call.horizontal_split = QHalf(QAdd(StrayGap1, StrayGap2))
             /\ ww.vww_insulations = QAbs(QSub(StrayGap2, StrayGap1))
        ELSE /\ ww_call.horizontal_split =
                    QSub(ww.max_top_bound,
                         QMul(QAbs(QSub(ww.max_bot_bound, ww.max_top_bound)),
                              ww_call.args[2]))
             /\ ww.vww_insulations = insulation.vww_insulation

\* ------------------------------------------------------------------------
\* Cell sizes of MeshData (checked under SpecMesh)
\* ------------------------------------------------------------------------
UpdatedWithFrequency == mesh_call.calls >= 1 /\ mesh_call.frequency # None
\* the skin depth of the first winding at the frequency of the last update, times
\* the skin mesh factor
FirstWindingSkin ==
    Scaled(SkinDepth(mesh_call.frequency, mesh.windings[1].cond_sigma, mesh.mu0),
           mesh.skin_mesh_factor)
RadiusCell(i) == Rat(QMul(QDiv(mesh.windings[i].conductor_radius, QInt(4)), mesh.global_accuracy))
\* c is the smaller of a and b
IsMin(c, a, b) == c \in { a, b } /\ ~Below(a, c) /\ ~Below(b, c)

C22_LayersAndCellFromResult ==
    (FreshLitzCall /\ LitzNoneCount = 1) =>
        /\ conductor.n_layers = QInt(NbrLayers(conductor.n_strands))
        /\ conductor.a_cell =
              ACell(QDiv(QMul(conductor.n_strands, QSq(conductor.strand_radius)),
                         conductor.ff), 1)

\* ------------------------------------------------------------------------
\* Regions of a WindingWindow after combining (checked under SpecCombine)
\* ------------------------------------------------------------------------
\* two rectangles share interior area
Overlap(v1, v2) ==
    /\ QLt(QMax(v1.left_bound, v2.left_bound), QMin(v1.right_bound, v2.right_bound))
    /\ QLt(QMax(v1.bot_bound, v2.bot_bound), QMin(v1.top_bound, v2.top_bound))
PairwiseDisjoint(vwws) ==
    \A i \in 1..Len(vwws), j \in 1..Len(vwws) : i < j => ~Overlap(vwws[i], vwws[j])

\* C23: after split_window and after every successful combine_vww that follows it
\* no two regions of the stored list share interior area.
C23_RegionsPairwiseDisjoint ==
    ((SplitDone \/ CombineCalled) /\ ww_call.result = "ok") =>
        PairwiseDisjoint(ww.virtual_winding_windows)

\* ------------------------------------------------------------------------
\* The air-gap midpoints read by split_window (checked under Spec)
\* ------------------------------------------------------------------------
\* C24: whenever split_window takes the stray-path branch, midpoints[start_index]
\* and midpoints[start_index + 1] both exist: the call never ends in an IndexError,
\* whatever the start index and the number of stored air gaps.
C24_StrayMidpointsExist ==
    (SplitDone /\ ww_call.stray) => ww_call.result # "IndexError"

\* ------------------------------------------------------------------------
\* Rejected combine_vww calls (checked under SpecCombine)
\* ------------------------------------------------------------------------
\* C25: a combine_vww call that raises (index distance 3, an argument that is not
\* in the stored list, or the same region as both arguments) leaves the stored list
\* of regions exactly as the call found it.
C25_RejectedCombineKeepsList ==
    (CombineCalled /\ ww_call.result # "ok") =>
        ww.virtual_winding_windows = ww_call.pre_vwws

====
